---------------------------- MODULE Spec2Model ----------------------------
(***************************************************************************)
(* A model of gdown's cached_download (src/gdown/cached_download.py).      *)
(*                                                                         *)
(* Several callers (threads or processes) share one cache root.  Each call *)
(* of cached_download is a sequence of steps on the shared file system:    *)
(* the existence/validity check, makedirs, mkdtemp, the transfer into the  *)
(* staging directory, the move under the lock file, the post-download      *)
(* verification and the postprocess hook.                                  *)
(***************************************************************************)
EXTENDS Integers, Sequences, FiniteSets, TLC

\* ------------------------------------------------------------- bounds
\* Calls of cached_download started in one behaviour (all callers together).
MaxCalls == 2

\* Length of the URLs whose cache path is derived, and derivations per URL.
MaxUrlLen == 3
MaxResolutions == 2

\* ------------------------------------------------------------- universe
Procs == {"p1", "p2"}

\* Destination paths.  InCache is a path below the cache root (what line 83
\* derives when path is None); Elsewhere is an explicit path on another file
\* system, whose parent directory may not exist yet.
InCache == "cache/f"
Elsewhere == "ext/f"
Paths == {InCache, Elsewhere}

\* File contents: two complete files and what is on disk after their first
\* block has been written.
Files == {"ab", "cd"}
Prefix(c) == IF c = "ab" THEN "a" ELSE "c"
Partials == {Prefix(c) : c \in Files}
NoFile == "NOFILE"

\* States of a staging directory name: no such directory, a directory without
\* the file "dl", or the content of its file "dl".
NoDir == "NODIR"
EmptyDir == "EMPTYDIR"
TmpNames == 1..MaxCalls
NoTmp == 0

Free == "free"

\* hashlib.md5(...).hexdigest() on the contents above.
md5sum(content) ==
    CASE content = "ab" -> "187ef4436122d1cc2f40dc2b92f0eba0"
      [] content = "cd" -> "6865aeb3a9ed28f9a79ec454b259e5d0"
      [] content = "a"  -> "0cc175b9c0f1b6a831c399e269772661"
      [] content = "c"  -> "4a8a08f09d37b73795649038408b5f33"

\* The md5 argument: None, or a str.
None == [kind |-> "none", s |-> ""]
Str(s) == [kind |-> "str", s |-> s]
\* The values tried: None, the empty str, a str that is no digest, and the
\* digest of the file "ab".
Md5Args == {None, Str(""), Str("abc"), Str(md5sum("ab"))}

\* Python truth value of the md5 argument (`if not md5`, `if md5`).
Truthy(m) == m.kind = "str" /\ m.s # ""

\* assert_md5sum with the comparison of the digests inverted.
assert_md5sum_Inverted(content, m) ==
    IF ~(m.kind = "str" /\ Len(m.s) = 32) THEN "ValueError"
    ELSE IF md5sum(content) # m.s THEN "True"
    ELSE "AssertionError"

\* assert_md5sum(filename, md5): "True", or the exception it raises.
assert_md5sum(content, m) ==
    IF ~(m.kind = "str" /\ Len(m.s) = 32) THEN "ValueError"
    ELSE IF md5sum(content) = m.s THEN "True"
    ELSE "AssertionError"

\* The existence check without the `return path` after a passed verification.
CheckExistence_NoVerifiedReturn(content, m) ==
    IF content # NoFile /\ ~Truthy(m) THEN "return" ELSE "download"

\* The existence check that trusts an existing file only with a checksum.
CheckExistence_NeverTrust(content, m) ==
    IF content # NoFile /\ Truthy(m)
    THEN LET r == assert_md5sum(content, m)
         IN  IF r = "True" THEN "return"
             ELSE IF r = "AssertionError" THEN "download"
             ELSE r
    ELSE "download"

\* The existence check without the try/except around assert_md5sum.
CheckExistence_Propagate(content, m) ==
    IF content # NoFile
    THEN IF ~Truthy(m) THEN "return"
         ELSE LET r == assert_md5sum(content, m)
              IN  IF r = "True" THEN "return" ELSE r
    ELSE "download"

\* The existence check that downloads whatever it finds.
CheckExistence_Refresh(content, m) == "download"

\* Lines 86-97: what the existence check decides for the file found at the
\* destination: "return" (cache hit), "download", or the exception raised.
CheckExistence(content, m) ==
    IF content # NoFile
    THEN IF ~Truthy(m) THEN "return"
         ELSE LET r == assert_md5sum(content, m)
              IN  IF r = "True" THEN "return"
                  ELSE IF r = "AssertionError" THEN "download"
                  ELSE r
    ELSE "download"

\* What assert_md5sum prints on standard output (lines 37-44): nothing when
\* it raises ValueError or quiet is set, else the notice before the
\* computation and, on a match, the one after it.
assert_md5sum_stdout(content, m, q) ==
    IF q \/ assert_md5sum(content, m) = "ValueError" THEN <<>>
    ELSE IF assert_md5sum(content, m) = "True" THEN <<"Computing MD5", "MD5 matches">>
    ELSE <<"Computing MD5">>

\* What lines 86-97 print on standard output: the cache-hit notice of line 89
\* unless quiet, or what assert_md5sum prints.
CheckExistence_stdout(content, m, q) ==
    IF content = NoFile THEN <<>>
    ELSE IF ~Truthy(m) THEN (IF q THEN <<>> ELSE <<"File exists">>)
    ELSE assert_md5sum_stdout(content, m, q)

\* What lines 86-97 print on standard error: the AssertionError of a stale
\* entry (line 97), whatever quiet is.
CheckExistence_stderr(content, m, q) ==
    IF content # NoFile /\ Truthy(m) /\ assert_md5sum(content, m) = "AssertionError"
    THEN <<"MD5 doesn't match">>
    ELSE <<>>

\* What lines 109-112 print on standard error before the transfer.
Announce(q) == IF q THEN <<>> ELSE <<"Cached Downloading">>

\* shutil.move renames when source and destination are on one file system
\* and copies, then unlinks the source, when they are not.  The staging
\* directory is below the cache root.
SameDevice(path) == path = InCache


\* ------------------------------------------------------------- cache path
\* Text is a sequence of one-character strings.  URLs are drawn from the
\* reserved characters and one other character, and the URL of the scenario.
Reserved == {"/", ":", "=", "?"}
Alphabet == Reserved \cup {"a"}
RECURSIVE Texts(_)
Texts(n) == IF n = 0 THEN {<<>>}
            ELSE LET shorter == Texts(n - 1)
                 IN  shorter \cup {Append(t, c) : t \in shorter, c \in Alphabet}
ScenarioUrl ==
    <<"h", "t", "t", "p", "s", ":", "/", "/", "h", "o", "s", "t", "/", "u", "c", "?",
      "i", "d", "=", "A", "B", "C", "1", "2", "3", "&", "e", "x", "p", "o", "r", "t",
      "=", "d", "o", "w", "n", "l", "o", "a", "d">>
Urls == Texts(MaxUrlLen) \cup {ScenarioUrl}

SLASH == <<"-", "S", "L", "A", "S", "H", "-">>
COLON == <<"-", "C", "O", "L", "O", "N", "-">>
EQUAL == <<"-", "E", "Q", "U", "A", "L", "-">>
QUESTION == <<"-", "Q", "U", "E", "S", "T", "I", "O", "N", "-">>

\* str.replace limited to the first occurrence.
RECURSIVE replace_First(_, _, _)
replace_First(text, old, new) ==
    IF text = <<>> THEN <<>>
    ELSE IF Head(text) = old THEN new \o Tail(text)
    ELSE <<Head(text)>> \o replace_First(Tail(text), old, new)

\* text.replace(old, new) for a one-character old: every occurrence.
RECURSIVE replace(_, _, _)
replace(text, old, new) ==
    IF text = <<>> THEN <<>>
    ELSE (IF Head(text) = old THEN new ELSE <<Head(text)>>)
            \o replace(Tail(text), old, new)

\* osp.join that puts no separator between its parts.
join_Concat(a, b) == a \o b

\* osp.join(a, b): an absolute b discards a; a separator is added unless a
\* is empty or ends with one.
join(a, b) ==
    IF b # <<>> /\ Head(b) = "/" THEN b
    ELSE IF a = <<>> \/ a[Len(a)] = "/" THEN a \o b
    ELSE a \o <<"/">> \o b

\* cache_root = osp.join(osp.expanduser("~"), ".cache/gdown"), line 14, for a
\* user whose home directory is /home/u.
Home == <<"/", "h", "o", "m", "e", "/", "u">>
cache_root == join(Home, <<".", "c", "a", "c", "h", "e", "/", "g", "d", "o", "w", "n">>)

\* Lines 77-83: the path derived from the URL when path is None.
ResolveCachePath(u) ==
    join(cache_root,
         replace(replace(replace(replace(u, "/", SLASH), ":", COLON), "=", EQUAL),
                 "?", QUESTION))

\* ------------------------------------------------------------- state
VARIABLES
    fs,            \* destination path -> content of the file there, or NoFile
    parentExists,  \* destination path -> its parent directory exists
    staging,       \* staging directory name -> NoDir, EmptyDir or content of "dl"
    lock,          \* holder of the lock file _dl_lock, or Free
    pc,            \* caller -> where its call stands
    path,          \* caller -> the call's destination path
    md5,           \* caller -> the call's md5 argument
    postprocess,   \* caller -> TRUE when a postprocess callable was given
    quiet,         \* caller -> the call's quiet flag
    stdout,        \* caller -> what the call has printed on standard output
    stderr,        \* caller -> what the call has printed on standard error
    temp_root,     \* caller -> the staging directory of the call, or NoTmp
    incoming,      \* caller -> the content the transport is delivering, or NoFile
    result,        \* caller -> "none", the path returned or the exception raised
    ncalls,        \* calls started so far
    \* history of the current call of each caller
    before,        \* content at the destination when the call started
    transports,    \* invocations of download() by the call
    posts,         \* arguments of the postprocess invocations of the call
    wrote,         \* the call has written to its destination path
    disturbed,     \* another caller has written to the call's destination since it started
    \* the derivation of the cache path of one URL (path is None)
    url,           \* the URL
    cache_path,    \* the path derived the last time, or the empty text
    earlier_path,  \* the path derived the time before, or the empty text
    resolutions    \* how many times the path of the URL has been derived

callVars == <<fs, parentExists, staging, lock, pc, path, md5, postprocess, quiet,
              stdout, stderr, temp_root, incoming, result, ncalls, before, transports,
              posts, wrote, disturbed>>
resolverVars == <<url, cache_path, earlier_path, resolutions>>
vars == <<callVars, resolverVars>>

\* How a call ended: the path it returned, or the exception it raised.
Exceptions == {"ValueError", "AssertionError", "TransportError", "OSError",
               "PostprocessError"}
Results == {"none"} \cup Paths \cup Exceptions

\* The messages of lines 38, 43, 47, 89 and 110.
Messages == {"Computing MD5", "MD5 matches", "MD5 doesn't match", "File exists",
             "Cached Downloading"}

TypeOK ==
    /\ fs \in [Paths -> {NoFile} \cup Files \cup Partials]
    /\ parentExists \in [Paths -> BOOLEAN]
    /\ staging \in [TmpNames -> {NoDir, EmptyDir} \cup Files \cup Partials]
    /\ lock \in Procs \cup {Free}
    /\ pc \in [Procs -> {"idle", "makedirs", "mkdtemp", "download", "transfer", "lock",
                         "move", "copy", "verify", "done", "crashed"}]
    /\ path \in [Procs -> Paths]
    /\ md5 \in [Procs -> Md5Args]
    /\ postprocess \in [Procs -> BOOLEAN]
    /\ quiet \in [Procs -> BOOLEAN]
    /\ stdout \in [Procs -> Seq(Messages)]
    /\ stderr \in [Procs -> Seq(Messages)]
    /\ temp_root \in [Procs -> TmpNames \cup {NoTmp}]
    /\ incoming \in [Procs -> Files \cup {NoFile}]
    /\ result \in [Procs -> Results]
    /\ ncalls \in 0..MaxCalls
    /\ before \in [Procs -> {NoFile} \cup Files \cup Partials]
    /\ transports \in [Procs -> Nat]
    /\ posts \in [Procs -> Seq(Paths)]
    /\ wrote \in [Procs -> BOOLEAN]
    /\ disturbed \in [Procs -> BOOLEAN]
    /\ url \in Urls
    /\ resolutions \in 0..MaxResolutions

\* The cache root exists (lines 14-19) and is empty; nothing is at the
\* explicit destination and its parent directory is still to be made.
InitCalls ==
    /\ fs = [d \in Paths |-> NoFile]
    /\ parentExists = [d \in Paths |-> d = InCache]
    /\ staging = [n \in TmpNames |-> NoDir]
    /\ lock = Free
    /\ pc = [p \in Procs |-> "idle"]
    /\ path = [p \in Procs |-> InCache]
    /\ md5 = [p \in Procs |-> None]
    /\ postprocess = [p \in Procs |-> FALSE]
    /\ quiet = [p \in Procs |-> FALSE]
    /\ stdout = [p \in Procs |-> <<>>]
    /\ stderr = [p \in Procs |-> <<>>]
    /\ temp_root = [p \in Procs |-> NoTmp]
    /\ incoming = [p \in Procs |-> NoFile]
    /\ result = [p \in Procs |-> "none"]
    /\ ncalls = 0
    /\ before = [p \in Procs |-> NoFile]
    /\ transports = [p \in Procs |-> 0]
    /\ posts = [p \in Procs |-> <<>>]
    /\ wrote = [p \in Procs |-> FALSE]
    /\ disturbed = [p \in Procs |-> FALSE]

\* No path has been derived yet.
InitResolver ==
    /\ cache_path = <<>>
    /\ earlier_path = <<>>
    /\ resolutions = 0

\* The callers pass explicit paths or the URL of the scenario.
Init == InitCalls /\ InitResolver /\ url = ScenarioUrl

\* ------------------------------------------------------------- helpers
\* An except clause that re-raises without removing the staging directory.
rmtree_Skip(st, n) == st

\* shutil.rmtree(temp_root)
rmtree(st, n) == [st EXCEPT ![n] = NoDir]

\* Caller p writes content c to destination d: the file system after it, and
\* the history of the other callers whose call has d as its destination.
WriteDest(p, d, c) ==
    /\ fs' = [fs EXCEPT ![d] = c]
    /\ wrote' = [wrote EXCEPT ![p] = TRUE]
    /\ disturbed' = [q \in Procs |->
                        IF q # p /\ path[q] = d THEN TRUE ELSE disturbed[q]]

\* `except Exception: shutil.rmtree(temp_root); raise` (lines 117-119).
ExceptHandler(p, e) ==
    /\ staging' = rmtree(staging, temp_root[p])
    /\ result' = [result EXCEPT ![p] = e]
    /\ pc' = [pc EXCEPT ![p] = "done"]

\* A lock that excludes nobody.
LockAvailable_Always(p) == TRUE

\* `with filelock.FileLock(lock_path)` is entered when nobody holds the lock.
LockAvailable(p) == lock = Free

\* ------------------------------------------------------------- actions
\* cached_download(url, path, md5, quiet, postprocess) is called: lines 76-97.
Call(p, path_, md5_, pp, q) ==
    /\ pc[p] \in {"idle", "done"}
    /\ ncalls < MaxCalls
    /\ ncalls' = ncalls + 1
    /\ path' = [path EXCEPT ![p] = path_]
    /\ md5' = [md5 EXCEPT ![p] = md5_]
    /\ postprocess' = [postprocess EXCEPT ![p] = pp]
    /\ quiet' = [quiet EXCEPT ![p] = q]
    /\ stdout' = [stdout EXCEPT ![p] = CheckExistence_stdout(fs[path_], md5_, q)]
    /\ stderr' = [stderr EXCEPT ![p] = CheckExistence_stderr(fs[path_], md5_, q)]
    /\ temp_root' = [temp_root EXCEPT ![p] = NoTmp]
    /\ incoming' = [incoming EXCEPT ![p] = NoFile]
    /\ before' = [before EXCEPT ![p] = fs[path_]]
    /\ transports' = [transports EXCEPT ![p] = 0]
    /\ posts' = [posts EXCEPT ![p] = <<>>]
    /\ wrote' = [wrote EXCEPT ![p] = FALSE]
    /\ disturbed' = [disturbed EXCEPT ![p] = FALSE]
    /\ LET r == CheckExistence(fs[path_], md5_)
       IN  /\ pc' = [pc EXCEPT ![p] = IF r = "download" THEN "makedirs" ELSE "done"]
           /\ result' = [result EXCEPT ![p] =
                            IF r = "download" THEN "none"
                            ELSE IF r = "return" THEN path_ ELSE r]
    /\ UNCHANGED <<fs, parentExists, staging, lock>>
    /\ UNCHANGED resolverVars

\* os.makedirs(osp.dirname(path)) with every OSError swallowed: lines 101-104.
\* It raises when the directory exists; when it does not, it creates it or
\* fails for another reason (permissions, a read-only file system).
Makedirs(p) ==
    /\ pc[p] = "makedirs"
    /\ \/ parentExists' = parentExists
       \/ /\ ~parentExists[path[p]]
          /\ parentExists' = [parentExists EXCEPT ![path[p]] = TRUE]
    /\ pc' = [pc EXCEPT ![p] = "mkdtemp"]
    /\ UNCHANGED <<fs, staging, lock, path, md5, postprocess, temp_root, incoming,
                   result, ncalls, before, transports, posts, wrote, disturbed>>
    /\ UNCHANGED resolverVars
    /\ UNCHANGED <<quiet, stdout, stderr>>

\* A staging directory under one fixed name.
mkdtemp_Fixed(st) == {1}

\* tempfile.mkdtemp(dir=cache_root) makes a directory under a name that does
\* not exist.  Which unused name it is does not matter to the callers: the
\* smallest one stands for it.
mkdtemp(st) ==
    {n \in TmpNames : st[n] = NoDir /\ \A k \in TmpNames : k < n => st[k] # NoDir}

\* temp_root = tempfile.mkdtemp(dir=cache_root) (line 105) and the notice of
\* lines 109-112.
Mkdtemp(p) ==
    /\ pc[p] = "mkdtemp"
    /\ \E n \in mkdtemp(staging) :
          /\ staging' = [staging EXCEPT ![n] = EmptyDir]
          /\ temp_root' = [temp_root EXCEPT ![p] = n]
    /\ pc' = [pc EXCEPT ![p] = "download"]
    /\ UNCHANGED <<fs, parentExists, lock, path, md5, postprocess, incoming,
                   result, ncalls, before, transports, posts, wrote, disturbed>>
    /\ UNCHANGED resolverVars
    /\ stderr' = [stderr EXCEPT ![p] = @ \o Announce(quiet[p])]
    /\ UNCHANGED <<quiet, stdout>>

\* download(url, temp_path, ...) is invoked (line 114) and starts writing the
\* file "dl" of the staging directory.
TransportStart(p, c) ==
    /\ pc[p] = "download"
    /\ transports' = [transports EXCEPT ![p] = @ + 1]
    /\ incoming' = [incoming EXCEPT ![p] = c]
    /\ staging' = [staging EXCEPT ![temp_root[p]] = Prefix(c)]
    /\ pc' = [pc EXCEPT ![p] = "transfer"]
    /\ UNCHANGED <<fs, parentExists, lock, path, md5, postprocess, temp_root,
                   result, ncalls, before, posts, wrote, disturbed>>
    /\ UNCHANGED resolverVars
    /\ UNCHANGED <<quiet, stdout, stderr>>

\* download() returns: the complete file is in the staging directory.
TransportFinish(p) ==
    /\ pc[p] = "transfer"
    /\ staging' = [staging EXCEPT ![temp_root[p]] = incoming[p]]
    /\ pc' = [pc EXCEPT ![p] = "lock"]
    /\ UNCHANGED <<fs, parentExists, lock, path, md5, postprocess, temp_root, incoming,
                   result, ncalls, before, transports, posts, wrote, disturbed>>
    /\ UNCHANGED resolverVars
    /\ UNCHANGED <<quiet, stdout, stderr>>

\* download() raises: the except clause removes the staging directory and
\* re-raises (lines 117-119).
TransportFail(p) ==
    /\ pc[p] = "transfer"
    /\ ExceptHandler(p, "TransportError")
    /\ UNCHANGED <<fs, parentExists, lock, path, md5, postprocess, temp_root, incoming,
                   ncalls, before, transports, posts, wrote, disturbed>>
    /\ UNCHANGED resolverVars
    /\ UNCHANGED <<quiet, stdout, stderr>>

\* `with filelock.FileLock(lock_path):` is entered (line 115).
AcquireLock(p) ==
    /\ pc[p] = "lock"
    /\ LockAvailable(p)
    /\ lock' = p
    /\ pc' = [pc EXCEPT ![p] = "move"]
    /\ UNCHANGED <<fs, parentExists, staging, path, md5, postprocess, temp_root, incoming,
                   result, ncalls, before, transports, posts, wrote, disturbed>>
    /\ UNCHANGED resolverVars
    /\ UNCHANGED <<quiet, stdout, stderr>>

\* shutil.move(temp_path, path) on one file system: os.rename puts the staged
\* file at the destination in one step; the lock is released on leaving the
\* with block (line 116).
MoveRename(p) ==
    /\ pc[p] = "move"
    /\ parentExists[path[p]]
    /\ SameDevice(path[p])
    /\ WriteDest(p, path[p], staging[temp_root[p]])
    /\ staging' = [staging EXCEPT ![temp_root[p]] = EmptyDir]
    /\ lock' = Free
    /\ pc' = [pc EXCEPT ![p] = "verify"]
    /\ UNCHANGED <<parentExists, path, md5, postprocess, temp_root, incoming,
                   result, ncalls, before, transports, posts>>
    /\ UNCHANGED resolverVars
    /\ UNCHANGED <<quiet, stdout, stderr>>

\* shutil.move(temp_path, path) across file systems: the destination is
\* opened for writing and the staged file is copied into it (line 116).
MoveCopyBegin(p) ==
    /\ pc[p] = "move"
    /\ parentExists[path[p]]
    /\ ~SameDevice(path[p])
    /\ WriteDest(p, path[p], Prefix(staging[temp_root[p]]))
    /\ pc' = [pc EXCEPT ![p] = "copy"]
    /\ UNCHANGED <<parentExists, staging, lock, path, md5, postprocess, temp_root,
                   incoming, result, ncalls, before, transports, posts>>
    /\ UNCHANGED resolverVars
    /\ UNCHANGED <<quiet, stdout, stderr>>

\* The copy completes, the staged file is unlinked and the lock is released.
MoveCopyEnd(p) ==
    /\ pc[p] = "copy"
    /\ WriteDest(p, path[p], staging[temp_root[p]])
    /\ staging' = [staging EXCEPT ![temp_root[p]] = EmptyDir]
    /\ lock' = Free
    /\ pc' = [pc EXCEPT ![p] = "verify"]
    /\ UNCHANGED <<parentExists, path, md5, postprocess, temp_root, incoming,
                   result, ncalls, before, transports, posts>>
    /\ UNCHANGED resolverVars
    /\ UNCHANGED <<quiet, stdout, stderr>>

\* A lock that stays held when shutil.move raises.
MoveFail_KeepLock(p) ==
    /\ \/ pc[p] = "move" /\ ~parentExists[path[p]]
       \/ pc[p] = "copy"
    /\ ExceptHandler(p, "OSError")
    /\ UNCHANGED <<fs, parentExists, lock, path, md5, postprocess, temp_root, incoming,
                   ncalls, before, transports, posts, wrote, disturbed>>
    /\ UNCHANGED resolverVars
    /\ UNCHANGED <<quiet, stdout, stderr>>

\* shutil.move raises: at once when the destination's directory is missing,
\* or in the middle of a copy (a full disk).  The lock is released on leaving
\* the with block and the except clause runs (lines 115-119).
MoveFail(p) ==
    /\ \/ pc[p] = "move" /\ ~parentExists[path[p]]
       \/ pc[p] = "copy"
    /\ lock' = Free
    /\ ExceptHandler(p, "OSError")
    /\ UNCHANGED <<fs, parentExists, path, md5, postprocess, temp_root, incoming,
                   ncalls, before, transports, posts, wrote, disturbed>>
    /\ UNCHANGED resolverVars
    /\ UNCHANGED <<quiet, stdout, stderr>>

\* Line 121-122: `if md5: assert_md5sum(path, md5)` on the file now at the
\* destination: "True", or the exception raised.
PostVerify(content, m) ==
    IF Truthy(m) THEN assert_md5sum(content, m) ELSE "True"

\* The hook called before the verification.
PostprocessRuns_BeforeVerify(p, r) == postprocess[p]

\* Lines 121-126 are straight-line code: the postprocess hook runs when one
\* was given and the verification before it did not raise.
PostprocessRuns(p, r) == postprocess[p] /\ r = "True"

\* A mismatch after the download sends the call back to download again.
PcAfterVerify_Retry(r) == IF r = "AssertionError" THEN "makedirs" ELSE "done"

\* Lines 121-128 hold no loop: whatever the verification says, the call ends.
PcAfterVerify(r) == "done"

\* A verification that removes the file it rejects.
Finish_Unlink(p) ==
    /\ pc[p] = "verify"
    /\ LET r == PostVerify(fs[path[p]], md5[p])
       IN  /\ pc' = [pc EXCEPT ![p] = PcAfterVerify(r)]
           /\ fs' = [fs EXCEPT ![path[p]] = IF r = "AssertionError" THEN NoFile ELSE @]
           /\ IF PostprocessRuns(p, r)
              THEN /\ posts' = [posts EXCEPT ![p] = Append(@, path[p])]
                   /\ \E ok \in BOOLEAN :
                         result' = [result EXCEPT ![p] =
                                       IF ~ok THEN "PostprocessError"
                                       ELSE IF r = "True" THEN path[p] ELSE r]
              ELSE /\ posts' = posts
                   /\ result' = [result EXCEPT ![p] = IF r = "True" THEN path[p] ELSE r]
    /\ UNCHANGED <<parentExists, staging, lock, path, md5, postprocess, temp_root,
                   incoming, ncalls, before, transports, wrote, disturbed>>
    /\ UNCHANGED resolverVars
    /\ stdout' = [stdout EXCEPT ![p] =
                     @ \o (IF Truthy(md5[p])
                           THEN assert_md5sum_stdout(fs[path[p]], md5[p], quiet[p])
                           ELSE <<>>)]
    /\ UNCHANGED <<quiet, stderr>>

\* Lines 121-128: the post-download verification, the postprocess hook and
\* the return.  The hook is the caller's code: it returns or raises.
Finish(p) ==
    /\ pc[p] = "verify"
    /\ LET r == PostVerify(fs[path[p]], md5[p])
       IN  /\ pc' = [pc EXCEPT ![p] = PcAfterVerify(r)]
           /\ IF PostprocessRuns(p, r)
              THEN /\ posts' = [posts EXCEPT ![p] = Append(@, path[p])]
                   /\ \E ok \in BOOLEAN :
                         result' = [result EXCEPT ![p] =
                                       IF ~ok THEN "PostprocessError"
                                       ELSE IF r = "True" THEN path[p] ELSE r]
              ELSE /\ posts' = posts
                   /\ result' = [result EXCEPT ![p] = IF r = "True" THEN path[p] ELSE r]
    /\ UNCHANGED <<fs, parentExists, staging, lock, path, md5, postprocess, temp_root,
                   incoming, ncalls, before, transports, wrote, disturbed>>
    /\ UNCHANGED resolverVars
    /\ stdout' = [stdout EXCEPT ![p] =
                     @ \o (IF Truthy(md5[p])
                           THEN assert_md5sum_stdout(fs[path[p]], md5[p], quiet[p])
                           ELSE <<>>)]
    /\ UNCHANGED <<quiet, stderr>>

\* The calling process is killed while the transport is writing or while
\* shutil.move is copying: no Python handler runs, and the operating system
\* drops the lock the process held.
Crash(p) ==
    /\ pc[p] \in {"transfer", "copy"}
    /\ pc' = [pc EXCEPT ![p] = "crashed"]
    /\ lock' = IF lock = p THEN Free ELSE lock
    /\ UNCHANGED <<fs, parentExists, staging, path, md5, postprocess, temp_root, incoming,
                   result, ncalls, before, transports, posts, wrote, disturbed>>
    /\ UNCHANGED resolverVars
    /\ UNCHANGED <<quiet, stdout, stderr>>

\* Concurrent callers.  quiet is read by the prints only (lines 37, 42, 88
\* and 109), so the callers here leave it at its default, False; SpecQuiet
\* below runs the calls with both values.
Next ==
    \E p \in Procs :
       \/ \E d \in Paths, m \in Md5Args, pp \in BOOLEAN : Call(p, d, m, pp, FALSE)
       \/ Makedirs(p)
       \/ Mkdtemp(p)
       \/ \E c \in Files : TransportStart(p, c)
       \/ TransportFinish(p)
       \/ TransportFail(p)
       \/ AcquireLock(p)
       \/ MoveRename(p)
       \/ MoveCopyBegin(p)
       \/ MoveCopyEnd(p)
       \/ MoveFail(p)
       \/ Finish(p)
       \/ Crash(p)

Spec == Init /\ [][Next]_vars

\* One caller, with quiet set or not.
FirstCaller == CHOOSE p \in Procs : TRUE
NextQuiet ==
    \E p \in {FirstCaller} :
       \/ \E d \in Paths, m \in Md5Args, pp \in BOOLEAN, q \in BOOLEAN :
             Call(p, d, m, pp, q)
       \/ Makedirs(p)
       \/ Mkdtemp(p)
       \/ \E c \in Files : TransportStart(p, c)
       \/ TransportFinish(p)
       \/ TransportFail(p)
       \/ AcquireLock(p)
       \/ MoveRename(p)
       \/ MoveCopyBegin(p)
       \/ MoveCopyEnd(p)
       \/ MoveFail(p)
       \/ Finish(p)
       \/ Crash(p)

SpecQuiet == Init /\ [][NextQuiet]_vars

\* Callers under a fair scheduler.  Neither the lock nor the length of a call
\* depends on quiet or postprocess, and of md5 only on whether the
\* verification of line 122 runs: the calls here pass no hook and either no
\* checksum or a well-formed one.
NextFair ==
    \E p \in Procs :
       \/ \E d \in Paths, m \in {None, Str(md5sum("ab"))} : Call(p, d, m, FALSE, FALSE)
       \/ Makedirs(p)
       \/ Mkdtemp(p)
       \/ \E c \in Files : TransportStart(p, c)
       \/ TransportFinish(p)
       \/ TransportFail(p)
       \/ AcquireLock(p)
       \/ MoveRename(p)
       \/ MoveCopyBegin(p)
       \/ MoveCopyEnd(p)
       \/ MoveFail(p)
       \/ Finish(p)
       \/ Crash(p)

\* A step of the call of p other than entering the lock: the interpreter runs
\* the next statement, and the transport, once invoked, returns or raises.
Progress(p) ==
    \/ Makedirs(p)
    \/ Mkdtemp(p)
    \/ \E c \in Files : TransportStart(p, c)
    \/ TransportFinish(p)
    \/ TransportFail(p)
    \/ MoveRename(p)
    \/ MoveCopyBegin(p)
    \/ MoveCopyEnd(p)
    \/ MoveFail(p)
    \/ Finish(p)

\* Every caller that can take a step takes one, and a caller that polls the
\* lock gets it if it is free again and again (filelock retries until then).
Fairness == \A p \in Procs : WF_vars(Progress(p)) /\ SF_vars(AcquireLock(p))

FairSpec == Init /\ [][NextFair]_vars /\ Fairness

\* Lines 76-83 with path None: the cache path of the URL is derived (again).
Resolve ==
    /\ resolutions < MaxResolutions
    /\ resolutions' = resolutions + 1
    /\ earlier_path' = cache_path
    /\ cache_path' = ResolveCachePath(url)
    /\ UNCHANGED url
    /\ UNCHANGED callVars

\* The derivation of the cache path, for every URL of Urls.
InitPath == InitCalls /\ InitResolver /\ url \in Urls
NextPath == Resolve
SpecPath == InitPath /\ [][NextPath]_vars

\* ------------------------------------------------------------- properties
\* What the call of caller p was asked and what it found.
ValidMd5(m) == m.kind = "str" /\ Len(m.s) = 32
Started(p) == pc[p] # "idle"
FoundMatching(p) ==
    /\ Started(p) /\ before[p] # NoFile
    /\ ValidMd5(md5[p]) /\ md5sum(before[p]) = md5[p].s
FoundStale(p) ==
    /\ Started(p) /\ before[p] # NoFile
    /\ ValidMd5(md5[p]) /\ md5sum(before[p]) # md5[p].s
FoundUnchecked(p) ==
    /\ Started(p) /\ before[p] # NoFile /\ ~Truthy(md5[p])

\* C1: a call that finds at its destination a file whose checksum equals the
\* expected one has returned the destination path and has not invoked the
\* transport.
C1_VerifiedHitSkipsTransport ==
    \A p \in Procs :
       FoundMatching(p) =>
          /\ pc[p] = "done"
          /\ result[p] = path[p]
          /\ transports[p] = 0

C1_Witness ==
    \E p \in Procs : FoundMatching(p) /\ pc[p] = "done" /\ result[p] = path[p]

\* C2: a call without an expected checksum that finds a file at its
\* destination has returned the destination path, complete file or not, and
\* has not invoked the transport.
C2_UncheckedHitSkipsTransport ==
    \A p \in Procs :
       FoundUnchecked(p) =>
          /\ pc[p] = "done"
          /\ result[p] = path[p]
          /\ transports[p] = 0

C2_Witness ==
    \E p \in Procs :
       /\ FoundUnchecked(p) /\ md5[p] = None
       /\ before[p] \in Partials
       /\ result[p] = path[p]

\* C3: a call that finds a stale file at its destination never ends without
\* having invoked the transport (the stale entry's mismatch is not its
\* failure), and at the step in which it returns its path the file at the
\* destination has the expected checksum.
C3_StaleEntryRedownloaded ==
    /\ [](\A p \in Procs :
            FoundStale(p) =>
               /\ pc[p] = "done" => transports[p] = 1
               /\ result[p] = "AssertionError" => wrote[p])
    /\ [][\A p \in Procs :
            (FoundStale(p) /\ pc[p] # "done" /\ pc'[p] = "done" /\ result'[p] = path[p])
               => md5sum(fs'[path[p]]) = md5[p].s]_vars

C3_Witness ==
    \E p \in Procs :
       /\ FoundStale(p) /\ pc[p] = "done" /\ result[p] = path[p]
       /\ md5sum(fs[path[p]]) = md5[p].s

\* C4: the step in which the transport fails ends the call with the
\* transport's failure, removes the call's staging directory and changes no
\* destination; the call has written nothing to its destination, which holds
\* what it held before the call unless another caller has written to it.
C4_TransportFailureCleansUp ==
    [][\A p \in Procs :
         (pc[p] = "transfer" /\ pc'[p] = "done") =>
            /\ result'[p] = "TransportError"
            /\ staging'[temp_root[p]] = NoDir
            /\ fs' = fs
            /\ ~wrote'[p]
            /\ ~disturbed'[p] => fs'[path[p]] = before[p]]_vars

C4_Witness ==
    \E p \in Procs :
       /\ pc[p] = "done" /\ result[p] = "TransportError"
       /\ before[p] # NoFile /\ fs[path[p]] = before[p]
       /\ staging[temp_root[p]] = NoDir

\* C5: the file visible at a destination path is always a complete file,
\* never a partly written one.
C5_NoPartialFileAtDestination ==
    \A d \in Paths : fs[d] \in {NoFile} \cup Files

\* Caller p is inside `with filelock.FileLock(lock_path):`, at shutil.move.
Moving(p) == pc[p] \in {"move", "copy"}

\* C6: at most one caller at a time is moving its staged file into place, a
\* caller that is moving holds the lock, and a caller whose transport is
\* running does not hold it.
C6_MoveUnderLockOnly ==
    /\ \A p, q \in Procs : (Moving(p) /\ Moving(q)) => p = q
    /\ \A p \in Procs : Moving(p) => lock = p
    /\ \A p \in Procs : pc[p] \in {"download", "transfer"} => lock # p

C6_Witness ==
    \E p, q \in Procs :
       /\ pc[p] = "copy" /\ lock = p
       /\ pc[q] = "lock" /\ path[q] = path[p]

\* The transport of the call of caller p has returned with a complete file.
Delivered(p) ==
    /\ incoming[p] # NoFile
    /\ pc[p] \in {"lock", "move", "copy", "verify", "done"}
    /\ result[p] # "TransportError"

\* C7: a call with an expected checksum that found no valid entry at its
\* destination, whose transport delivered a file with that checksum and whose
\* destination no other caller wrote to, does not end with a checksum or
\* argument failure; unless the move or the postprocess hook failed, it has
\* returned its path, and the file there has the expected checksum.
C7_RoundTrip ==
    \A p \in Procs :
       ( /\ pc[p] = "done"
         /\ ValidMd5(md5[p])
         /\ ~FoundMatching(p)
         /\ Delivered(p) /\ md5sum(incoming[p]) = md5[p].s
         /\ ~disturbed[p] )
       => /\ result[p] \in {path[p], "OSError", "PostprocessError"}
          /\ result[p] = path[p] => md5sum(fs[path[p]]) = md5[p].s
          /\ result[p] = "PostprocessError" => md5sum(fs[path[p]]) = md5[p].s

C7_Witness ==
    \E p \in Procs :
       /\ pc[p] = "done" /\ ValidMd5(md5[p]) /\ before[p] = NoFile
       /\ Delivered(p) /\ md5sum(incoming[p]) = md5[p].s
       /\ result[p] = path[p] /\ md5sum(fs[path[p]]) = md5[p].s

\* Caller p is at the post-download verification and the file at its
\* destination does not have the expected checksum.
PostMismatch(p) ==
    /\ pc[p] = "verify"
    /\ ValidMd5(md5[p]) /\ md5sum(fs[path[p]]) # md5[p].s

\* C8: a call invokes the transport at most once; a call that ended with a
\* checksum mismatch or a transport failure had invoked it exactly once; and
\* the verification step that finds a mismatch at the destination ends the
\* call with that mismatch.
C8_NoRetry ==
    /\ [](\A p \in Procs :
            /\ transports[p] <= 1
            /\ result[p] \in {"AssertionError", "TransportError"}
                  => pc[p] = "done" /\ transports[p] = 1
            /\ result[p] = "AssertionError" => wrote[p])
    /\ [][\A p \in Procs :
            (PostMismatch(p) /\ pc'[p] # "verify")
               => /\ pc'[p] = "done"
                  /\ result'[p] = "AssertionError"
                  /\ transports'[p] = 1]_vars

C8_Witness ==
    \E p \in Procs :
       /\ pc[p] = "done" /\ result[p] = "AssertionError"
       /\ transports[p] = 1 /\ md5sum(fs[path[p]]) # md5[p].s

\* C9: the postprocess hook is invoked at most once per call, with the
\* call's destination path, only by a call that was given one, in the step
\* that ends the call, after the call has moved its file into place and, when
\* a checksum was requested, with the file at the destination passing the
\* verification; a call that ended with a transfer, move, checksum or
\* argument failure, or on a cache hit, has not invoked it.
C9_PostprocessAfterPlacement ==
    /\ [](\A p \in Procs :
            /\ Len(posts[p]) <= 1
            /\ posts[p] # <<>> =>
                  /\ posts[p] = <<path[p]>>
                  /\ postprocess[p]
                  /\ pc[p] = "done"
                  /\ wrote[p] /\ transports[p] = 1
                  /\ result[p] \in {path[p], "PostprocessError"}
            /\ (pc[p] = "done" /\ transports[p] = 0) => posts[p] = <<>>)
    /\ [][\A p \in Procs :
            (posts'[p] # posts[p] /\ posts'[p] # <<>>) =>
               /\ pc[p] = "verify" /\ pc'[p] = "done"
               /\ fs'[path[p]] \in Files \cup Partials
               /\ Truthy(md5[p]) => assert_md5sum(fs'[path[p]], md5[p]) = "True"]_vars

C9_Witness ==
    \E p \in Procs :
       /\ posts[p] = <<path[p]>> /\ Truthy(md5[p])
       /\ result[p] = path[p] /\ md5sum(fs[path[p]]) = md5[p].s

\* C10: a call given an expected checksum that is not a 32-character string
\* ends with ValueError, and invokes no transport, creates no staging
\* directory and writes nothing to its destination.
C10_InvalidChecksumFailsFast ==
    \A p \in Procs :
       (Started(p) /\ md5[p].kind = "str" /\ ~ValidMd5(md5[p])) =>
          /\ pc[p] = "done" => result[p] = "ValueError"
          /\ transports[p] = 0
          /\ temp_root[p] = NoTmp
          /\ ~wrote[p]

\* The name the scenario's URL is said to be given, and the name
\* https-COLON--SLASH--SLASH-host-SLASH-uc-QUESTION-id-EQUAL-ABC123&export-EQUAL-download.
StatedName ==
    <<"h", "t", "t", "p", "s", "-", "C", "O", "L", "O", "N", "-", "-", "-", "S", "L",
      "A", "S", "H", "-", "-", "-", "S", "L", "A", "S", "H", "-", "h", "o", "s", "t",
      "-", "S", "L", "A", "S", "H", "-", "u", "c", "-", "Q", "U", "E", "S", "T", "I",
      "O", "N", "-", "i", "d", "-", "E", "Q", "U", "A", "L", "-", "A", "B", "C", "1",
      "2", "3", "-", "E", "Q", "U", "A", "L", "-", "e", "x", "p", "o", "r", "t", "-",
      "E", "Q", "U", "A", "L", "-", "d", "o", "w", "n", "l", "o", "a", "d">>
DerivedName ==
    <<"h", "t", "t", "p", "s", "-", "C", "O", "L", "O", "N", "-", "-", "S", "L", "A",
      "S", "H", "-", "-", "S", "L", "A", "S", "H", "-", "h", "o", "s", "t", "-", "S",
      "L", "A", "S", "H", "-", "u", "c", "-", "Q", "U", "E", "S", "T", "I", "O", "N",
      "-", "i", "d", "-", "E", "Q", "U", "A", "L", "-", "A", "B", "C", "1", "2", "3",
      "&", "e", "x", "p", "o", "r", "t", "-", "E", "Q", "U", "A", "L", "-", "d", "o",
      "w", "n", "l", "o", "a", "d">>

RECURSIVE Basename(_)
Basename(t) ==
    IF t = <<>> \/ t[Len(t)] = "/" THEN <<>>
    ELSE Append(Basename(SubSeq(t, 1, Len(t) - 1)), t[Len(t)])

\* Each character of a text replaced by its token, the others kept.
Token(c) ==
    CASE c = "/" -> SLASH
      [] c = ":" -> COLON
      [] c = "=" -> EQUAL
      [] c = "?" -> QUESTION
      [] OTHER -> <<c>>
RECURSIVE Substituted(_)
Substituted(t) == IF t = <<>> THEN <<>> ELSE Token(Head(t)) \o Substituted(Tail(t))

AllCompleted == \A p \in Procs : pc[p] \in {"idle", "done"}

\* C13: when every call has completed, no staging directory exists under the
\* cache root.
C13_NoStagingDirectoryLeft ==
    AllCompleted => \A n \in TmpNames : staging[n] = NoDir

\* The call of caller p is past os.makedirs and the parent directory of its
\* destination does not exist: makedirs failed, and not with "already exists".
\* (A cache hit and the ValueError of line 93 need a file at the destination,
\* hence its directory.)
MakedirsFailed(p) ==
    /\ Started(p) /\ pc[p] # "makedirs"
    /\ ~parentExists[path[p]]

\* C14: a call whose os.makedirs failed for another reason than "already
\* exists" has ended with that failure, has created no staging directory and
\* has not invoked the transport.
C14_MakedirsFailurePropagates ==
    \A p \in Procs :
       MakedirsFailed(p) =>
          /\ temp_root[p] = NoTmp
          /\ transports[p] = 0
          /\ pc[p] = "done" => result[p] = "OSError"

\* C15: a call with quiet set has printed nothing, on standard output or on
\* standard error, whichever way it went, the warning of a stale entry
\* included.
C15_QuietSilences ==
    \A p \in Procs : quiet[p] => (stdout[p] = <<>> /\ stderr[p] = <<>>)

\* The call of p has made its staging directory and has not yet left the
\* try block of lines 113-119.
Staged(p) == pc[p] \in {"download", "transfer", "lock", "move", "copy"}

\* C16: the staging directory of a call is the directory of no other call:
\* it did not exist when the call made it, two calls under way never have the
\* same one, and a step changes a staging directory only when it is the
\* acting call's own (the transport writes there, the move empties it, the
\* cleanup removes it).
C16_StagingIsPrivate ==
    /\ [](\A p, q \in Procs :
             (p # q /\ Staged(p) /\ Staged(q)) => temp_root[p] # temp_root[q])
    /\ [][\A n \in TmpNames :
             staging'[n] # staging[n] =>
                \E p \in Procs :
                   /\ pc'[p] # pc[p]
                   /\ \/ /\ pc[p] = "mkdtemp"
                         /\ staging[n] = NoDir
                         /\ temp_root'[p] = n
                      \/ /\ Staged(p)
                         /\ temp_root[p] = n
                   /\ \A q \in Procs \ {p} : Staged(q) => temp_root[q] # n]_vars
C16_Witness ==
    \E p, q \in Procs :
       /\ p # q
       /\ pc[p] = "done" /\ result[p] = "TransportError"
       /\ pc[q] = "lock" /\ staging[temp_root[q]] = incoming[q]
       /\ temp_root[p] # temp_root[q]

\* C17: with callers racing on one destination, the post-download
\* verification of a call checks the content that call moved into place: at
\* the verification the destination holds it, and a call whose transport
\* delivered content with the expected checksum does not end with a checksum
\* mismatch.
C17_VerifiesOwnContent ==
    \A p \in Procs :
       /\ (pc[p] = "verify" /\ Truthy(md5[p])) => fs[path[p]] = incoming[p]
       /\ ( /\ pc[p] = "done"
            /\ ValidMd5(md5[p])
            /\ Delivered(p) /\ md5sum(incoming[p]) = md5[p].s )
          => result[p] # "AssertionError"

\* C18: the lock is held only by a caller inside the move step, so every way
\* out of that step (the move done, the move failed, the process killed) has
\* released it; with a fair scheduler and a transport that ends, a caller
\* waiting for the lock gets it, and every call ends.
C18_LockReleasedAndCallsEnd ==
    /\ [](\A p \in Procs : lock = p => Moving(p))
    /\ \A p \in Procs : (pc[p] = "lock") ~> (lock = p)
    /\ \A p \in Procs : Started(p) ~> (pc[p] \in {"done", "crashed"})
C18_Witness ==
    \E p, q \in Procs :
       /\ p # q
       /\ pc[p] = "lock"
       /\ lock = q /\ pc[q] = "copy"

\* The call of p found at its destination a file it accepts: one with the
\* expected checksum, or any file when no checksum was given.
Hit(p) == FoundMatching(p) \/ FoundUnchecked(p)

\* C19: a call that hits the cache leaves the file system as it found it.
\* The call is over with the existence check, it has made no staging
\* directory, written nothing and never held the lock; and the step that
\* starts (and ends) it changes no file, directory or lock.
C19_HitLeavesFileSystemAlone ==
    /\ [](\A p \in Procs :
             Hit(p) => /\ pc[p] = "done" /\ result[p] = path[p]
                       /\ temp_root[p] = NoTmp
                       /\ ~wrote[p]
                       /\ lock # p)
    /\ [][\A p \in Procs :
             (ncalls' # ncalls /\ Hit(p)') =>
                UNCHANGED <<fs, parentExists, staging, lock>>]_vars
C19_Witness ==
    \E p \in Procs :
       /\ Hit(p) /\ result[p] = path[p]
       /\ fs[path[p]] = before[p]
       /\ temp_root[p] = NoTmp
       /\ \E n \in TmpNames : staging[n] = EmptyDir

\* The call of p ended with a failed post-download verification, and the
\* file at its destination still fails it.
LeftBehind(p) ==
    /\ pc[p] = "done" /\ result[p] = "AssertionError"
    /\ fs[path[p]] # NoFile /\ md5sum(fs[path[p]]) # md5[p].s

\* What a call of caller q sets: a step that changes it for q is q's step.
CallState(q) ==
    <<pc[q], path[q], md5[q], postprocess[q], temp_root[q], incoming[q], result[q],
      before[q], transports[q], posts[q], wrote[q], disturbed[q]>>

\* C20: the post-download verification that fails leaves the file it
\* rejected at the destination; while it is there, a later call for that
\* destination without a checksum returns it as a hit without invoking the
\* transport, and a later call with the same checksum goes on to download.
C20_RejectedFileStays ==
    /\ [][\A p \in Procs :
             (pc[p] = "verify" /\ result'[p] = "AssertionError") =>
                (fs' = fs /\ fs[path[p]] # NoFile)]_vars
    /\ [][\A p, q \in Procs :
             ( /\ LeftBehind(p)
               /\ ncalls' # ncalls
               /\ CallState(q)' # CallState(q)
               /\ path'[q] = path[p] ) =>
                /\ md5'[q] = None =>
                      /\ pc'[q] = "done" /\ result'[q] = path'[q]
                      /\ transports'[q] = 0
                      /\ fs' = fs
                /\ md5'[q] = md5[p] => pc'[q] = "makedirs"]_vars
C20_Witness ==
    \E p, q \in Procs :
       /\ p # q
       /\ LeftBehind(p)
       /\ path[q] = path[p] /\ md5[q] = None
       /\ before[q] = fs[path[p]]
       /\ pc[q] = "done" /\ result[q] = path[q] /\ transports[q] = 0

=============================================================================
